---- MODULE Spec2Model ----
(***************************************************************************)
(* State-machine model of the ozcryptonews scripts: twelve harvesters that *)
(* append rows to the shared ledger articles.csv, and the Telegram         *)
(* notifier that reads the ledger, delivers the pending rows and rewrites  *)
(* the file with their done flags, and the publisher that stages, commits  *)
(* and pushes the ledger.                                                  *)
(*                                                                         *)
(* The ledger is modelled as a file: it may be missing, and when it exists *)
(* it is a sequence of lines (zero lines = a zero-byte file).  A line is   *)
(* the five cells date,source,url,title,done, plus a flag telling whether  *)
(* a UTF-8 byte order mark precedes it.  The header is a line whose cells  *)
(* are the five column names.                                              *)
(***************************************************************************)
EXTENDS Integers, Sequences, FiniteSets, TLC

VARIABLES ledger, checked, hv, nt, pb, pg

vars == <<ledger, checked, hv, nt, pb, pg>>

(***************************************************************************)
(* Bounds of the exploration.                                              *)
(***************************************************************************)
\* Article rows the ledger and the batch being collected may hold together
\* while a harvester still accepts items.
MaxRows == 2

(***************************************************************************)
(* Civil time.  A stamp is what an upstream page or feed states: civil     *)
(* fields and, when aware, a UTC offset in whole hours.                    *)
(***************************************************************************)
Civil(y, mo, d, h, mi, s) == [y |-> y, mo |-> mo, d |-> d, h |-> h, mi |-> mi, s |-> s]

Naive(c) == [c |-> c, aware |-> FALSE, off |-> 0]

Aware(c, off) == [c |-> c, aware |-> TRUE, off |-> off]

IsLeap(y) == (y % 4 = 0) /\ ((y % 100 # 0) \/ (y % 400 = 0))

DaysIn(y, mo) ==
    IF mo = 2 THEN (IF IsLeap(y) THEN 29 ELSE 28)
    ELSE IF mo \in {4, 6, 9, 11} THEN 30 ELSE 31

PrevDay(c) ==
    IF c.d > 1 THEN [c EXCEPT !.d = c.d - 1]
    ELSE IF c.mo > 1 THEN [c EXCEPT !.mo = c.mo - 1, !.d = DaysIn(c.y, c.mo - 1)]
    ELSE [c EXCEPT !.y = c.y - 1, !.mo = 12, !.d = 31]

NextDay(c) ==
    IF c.d < DaysIn(c.y, c.mo) THEN [c EXCEPT !.d = c.d + 1]
    ELSE IF c.mo < 12 THEN [c EXCEPT !.mo = c.mo + 1, !.d = 1]
    ELSE [c EXCEPT !.y = c.y + 1, !.mo = 1, !.d = 1]

\* The civil time k hours later (k may be negative), |k| < 24.
ShiftHours(c, k) ==
    LET h2 == c.h + k
    IN  IF h2 < 0 THEN [PrevDay(c) EXCEPT !.h = h2 + 24]
        ELSE IF h2 >= 24 THEN [NextDay(c) EXCEPT !.h = h2 - 24]
        ELSE [c EXCEPT !.h = h2]

RECURSIVE DaysBeforeMonth(_, _)
DaysBeforeMonth(y, mo) ==
    IF mo <= 1 THEN 0 ELSE DaysBeforeMonth(y, mo - 1) + DaysIn(y, mo - 1)

RECURSIVE DaysBeforeYear(_)
DaysBeforeYear(y) ==
    IF y <= 2020 THEN 0
    ELSE DaysBeforeYear(y - 1) + (IF IsLeap(y - 1) THEN 366 ELSE 365)

\* Seconds between 2020-01-01T00:00:00 and the civil time c.
Seconds(c) ==
    (((DaysBeforeYear(c.y) + DaysBeforeMonth(c.y, c.mo) + (c.d - 1)) * 24 + c.h) * 60
        + c.mi) * 60 + c.s

\* The UTC civil time of an aware stamp; a naive stamp has none of its own.
UtcCivil(st) == ShiftHours(st.c, 0 - st.off)

\* datetime.now(timezone.utc) of the machine running a script.
Now == Civil(2025, 3, 1, 0, 0, 0)

DaySeconds == 24 * 60 * 60

(***************************************************************************)
(* Text of the date column.  A cell is either literal text (the column     *)
(* name "date") or a rendered timestamp YYYY-MM-DDTHH:MM:SS followed by a  *)
(* suffix: "+00:00", another offset, "Z", or nothing.                      *)
(***************************************************************************)
Lit(t) == [lit |-> t, c |-> Civil(0, 0, 0, 0, 0, 0), suf |-> ""]

Stamped(c, suf) == [lit |-> "", c |-> c, suf |-> suf]

\* "%z" as isoformat() renders a whole-hour offset.
OffsetText(off) ==
    CASE off = 0 -> "+00:00"
      [] off = 10 -> "+10:00"
      [] off = 11 -> "+11:00"
      [] off = 0 - 5 -> "-05:00"
      [] OTHER -> "+??:??"

OffsetOf(suf) ==
    CASE suf = "+10:00" -> 10
      [] suf = "+11:00" -> 11
      [] suf = "-05:00" -> 0 - 5
      [] OTHER -> 0

\* The instant a date cell denotes, a text without offset read as UTC.
CellSeconds(cell) == Seconds(ShiftHours(cell.c, 0 - OffsetOf(cell.suf)))

\* The year of that instant in UTC.
CellUtcYear(cell) == ShiftHours(cell.c, 0 - OffsetOf(cell.suf)).y

(***************************************************************************)
(* The CSV file.                                                           *)
(***************************************************************************)
CHECK_MARK == "+"

Row(date, source, url, title, done) ==
    [date |-> date, source |-> source, url |-> url, title |-> title,
     done |-> done, bom |-> FALSE]

\* The line csv writes for CSV_HEADERS.
HeaderLine == Row(Lit("date"), "source", "url", "title", "done")

\* The same line as pandas writes it at the start of a file under utf-8-sig.
BomHeaderLine == [HeaderLine EXCEPT !.bom = TRUE]

NoFile == [exists |-> FALSE, lines |-> <<>>]

File(lines) == [exists |-> TRUE, lines |-> lines]

\* not os.path.exists(f) or os.path.getsize(f) == 0
MissingOrEmpty(f) == ~f.exists \/ Len(f.lines) = 0

\* csv.DictReader takes the first line as fieldnames; col \in fieldnames.
HasCol(f, col) ==
    /\ f.exists
    /\ Len(f.lines) > 0
    /\ CASE col = "date" -> f.lines[1].date = Lit("date") /\ ~f.lines[1].bom
         [] col = "source" -> f.lines[1].source = "source"
         [] col = "url" -> f.lines[1].url = "url"
         [] col = "title" -> f.lines[1].title = "title"
         [] col = "done" -> f.lines[1].done = "done"

\* A comparison that accepts whatever the first line holds.
HeaderMatches_any(f) == f.exists /\ Len(f.lines) > 0

\* reader.fieldnames == CSV_HEADERS
HeaderMatches(f) == f.exists /\ Len(f.lines) > 0 /\ f.lines[1] = HeaderLine

\* The rows a DictReader yields: every line after the first.
DataRows(f) == IF Len(f.lines) = 0 THEN <<>> ELSE Tail(f.lines)

\* The number of lines that are not a header line.
ArticleRows(f) == Cardinality({i \in 1..Len(f.lines) : f.lines[i].source # "source"})

\* open(f, 'w') followed by the header: the file holds the header only.
\* io = FALSE is an IOError raised by open: the file is left as it was.
CreateWithHeader(f, io) == IF io THEN File(<<HeaderLine>>) ELSE f

\* open(f, 'a') followed by the rows.
AppendLines(f, rows, io) == IF io THEN File(f.lines \o rows) ELSE f

\* str.strip() on the texts a done cell can hold.
Strip(t) ==
    CASE t = " +" -> "+"
      [] t = "+ " -> "+"
      [] t = " " -> ""
      [] OTHER -> t

(***************************************************************************)
(* Upstream content.  An item is one entry of a feed, listing or API page: *)
(* its link ("" when the entry has none), the date it states, and whether  *)
(* its text matches the keyword list of the script reading it.             *)
(***************************************************************************)
Title(u) == IF u = "u1" THEN "t1" ELSE IF u = "u2" THEN "t2" ELSE "t0"

OkDate(st) == [k |-> "ok", st |-> st]

\* The entry states no date at all.
NoDate == [k |-> "none", st |-> Naive(Civil(0, 0, 0, 0, 0, 0))]

\* The entry states a date no parser accepts.
BadDate == [k |-> "bad", st |-> Naive(Civil(0, 0, 0, 0, 0, 0))]

Item(u, date, kw) == [url |-> u, date |-> date, kw |-> kw]

StampJan == Naive(Civil(2025, 1, 10, 0, 0, 0))

StampFeb == Naive(Civil(2025, 2, 20, 0, 0, 0))

StampOld == Naive(Civil(2024, 12, 31, 0, 0, 0))

\* The items a harvester run may meet, in any order and any number of times.
Items ==
    {Item("u1", OkDate(StampJan), TRUE), Item("u1", OkDate(StampFeb), TRUE),
     Item("u2", OkDate(StampJan), TRUE), Item("u2", OkDate(StampOld), TRUE),
     Item("", OkDate(StampFeb), TRUE), Item("u1", NoDate, TRUE),
     Item("u2", BadDate, TRUE), Item("u1", OkDate(StampFeb), FALSE)}

\* The UTC offset of the machine's local time zone, in hours.
LocalOffsets == {0, 10}

(***************************************************************************)
(* The state of a harvester run.  pend is the list of new articles in the  *)
(* order found, each with its sort key; old (the lines of the ledger when  *)
(* the run started) and batch (the rows the run appended) record the run   *)
(* for the properties below.                                               *)
(***************************************************************************)
Pend(row, key, aware, keep) == [row |-> row, key |-> key, aware |-> aware, keep |-> keep]

HvIdle ==
    [pc |-> "idle", src |-> "", lo |-> 0, opt |-> FALSE, seen |-> {}, seenTD |-> {},
     isNew |-> FALSE, wm |-> 0, stop |-> FALSE, pend |-> <<>>, old |-> <<>>, batch |-> <<>>]

HvDone(h, batch) == [HvIdle EXCEPT !.pc = "done", !.src = h.src, !.old = h.old, !.batch = batch]

\* A run that ended on an uncaught exception: nothing was appended.
HvCrashed(h) == HvDone(h, <<>>)

AddPend(h, p) == [h EXCEPT !.pend = Append(@, p)]

\* The url cells of the data rows whose source cell is src and whose url is
\* not empty.
UrlsOfSource(f, src) ==
    {f.lines[i].url : i \in {j \in 2..Len(f.lines) :
        f.lines[j].source = src /\ f.lines[j].url # ""}}

RowsOf(pend) == [i \in 1..Len(pend) |-> pend[i].row]

\* list.sort(key=...): a stable sort by key, earliest first.
RECURSIVE InsertByKey(_, _)
InsertByKey(sorted, e) ==
    IF sorted = <<>> THEN <<e>>
    ELSE IF sorted[Len(sorted)].key <= e.key THEN Append(sorted, e)
    ELSE Append(InsertByKey(SubSeq(sorted, 1, Len(sorted) - 1), e), sorted[Len(sorted)])

RECURSIVE SortByKey(_)
SortByKey(seq) ==
    IF seq = <<>> THEN <<>>
    ELSE InsertByKey(SortByKey(SubSeq(seq, 1, Len(seq) - 1)), seq[Len(seq)])

\* The result of the write step of a run: the file and the rows appended.
Written(f, rows) == [file |-> f, batch |-> rows]

(***************************************************************************)
(* austrac.py                                                              *)
(***************************************************************************)
AUSTRAC == "austrac.gov.au"

\* feedparser's published_parsed: the stated date as a UTC time tuple.
PublishedParsed(st) == IF st.aware THEN UtcCivil(st) ELSE st.c

Austrac_load_existing_urls(f, io) ==
    IF ~f.exists THEN [file |-> CreateWithHeader(f, io), seen |-> {}]
    ELSE IF HasCol(f, "url") /\ HasCol(f, "source")
         THEN [file |-> f, seen |-> UrlsOfSource(f, AUSTRAC)]
         ELSE [file |-> f, seen |-> {}]

\* time.mktime reads the tuple as local time; fromtimestamp(tz=utc) renders
\* the resulting instant in UTC.
Austrac_format_date_iso(st, lo) == ShiftHours(PublishedParsed(st), 0 - lo)

Austrac_MIN_YEAR == 2025

Austrac_entry(h, it) ==
    IF it.url = "" \/ it.date.k # "ok" THEN h
    ELSE IF it.url \in h.seen THEN h
    ELSE IF ~it.kw THEN h
    ELSE LET c == Austrac_format_date_iso(it.date.st, h.lo)
         IN  IF c.y < Austrac_MIN_YEAR THEN h
             ELSE AddPend(h, Pend(Row(Stamped(c, "+00:00"), AUSTRAC, it.url,
                                      Title(it.url), ""), Seconds(c), TRUE, TRUE))

Austrac_write(f, h, io) ==
    IF h.pend = <<>> \/ ~io THEN Written(f, <<>>)
    ELSE LET rows == RowsOf(SortByKey(h.pend))
         IN  Written(AppendLines(f, rows, TRUE), rows)

(***************************************************************************)
(* coindesk.py                                                             *)
(***************************************************************************)
COINDESK == "coindesk.com"

Coindesk_load_existing_urls(f) ==
    IF ~MissingOrEmpty(f) /\ HasCol(f, "url") /\ HasCol(f, "source")
    THEN UrlsOfSource(f, COINDESK)
    ELSE {}

\* datetime.isoformat(): the fields as parsed, followed by the offset when
\* the value is aware and by nothing when it is naive.
IsoFormat(st) == Stamped(st.c, IF st.aware THEN OffsetText(st.off) ELSE "")

\* The value datetimes of one kind are ordered by.
OrderKey(st) == IF st.aware THEN Seconds(UtcCivil(st)) ELSE Seconds(st.c)

Coindesk_MIN_YEAR == 2025

Coindesk_entry(h, it) ==
    IF it.url = "" \/ it.date.k # "ok" THEN h
    ELSE IF it.url \in h.seen THEN h
    ELSE IF it.date.st.c.y >= Coindesk_MIN_YEAR
         THEN AddPend(h, Pend(Row(IsoFormat(it.date.st), COINDESK, it.url,
                                  Title(it.url), ""),
                              OrderKey(it.date.st), it.date.st.aware, TRUE))
         ELSE h

\* Comparing a naive with an aware datetime raises TypeError.
MixedKinds(pend) == \E i, j \in 1..Len(pend) : pend[i].aware # pend[j].aware

Coindesk_append_to_csv(f, h, io) ==
    IF h.pend = <<>> \/ MixedKinds(h.pend) \/ ~io THEN Written(f, <<>>)
    ELSE LET rows == RowsOf(SortByKey(h.pend))
             head == IF MissingOrEmpty(f) THEN <<HeaderLine>> ELSE <<>>
         IN  Written(AppendLines(f, head \o rows, TRUE), rows)

(***************************************************************************)
(* ausblock.py                                                             *)
(***************************************************************************)
AUSBLOCK == "ausblock.com.au"

\* datetime.fromisoformat on a date cell, then conversion to UTC (a text
\* without offset is taken as UTC): the instant, or -1 when it raises.
LedgerInstant(cell) == IF cell.lit # "" \/ cell.suf = "Z" THEN 0 - 1 ELSE CellSeconds(cell)

RECURSIVE MaxInstant(_, _, _)
MaxInstant(f, src, i) ==
    IF i > Len(f.lines) THEN 0 - 1
    ELSE LET rest == MaxInstant(f, src, i + 1)
             mine == IF f.lines[i].source = src /\ HasCol(f, "source") /\ HasCol(f, "date")
                     THEN LedgerInstant(f.lines[i].date) ELSE 0 - 1
         IN  IF mine > rest THEN mine ELSE rest

Ausblock_load_last_date(f) ==
    IF ~f.exists THEN Seconds(Now) - 30 * DaySeconds
    ELSE LET last == MaxInstant(f, AUSBLOCK, 2)
         IN  IF last >= 0 THEN last ELSE Seconds(Now) - 60 * DaySeconds

\* datetime.astimezone(utc): a naive value is read as local time.
AsTimezoneUtc(st, lo) == IF st.aware THEN UtcCivil(st) ELSE ShiftHours(st.c, 0 - lo)

Ausblock_MIN_YEAR == 2025

Ausblock_entry(h, it) ==
    IF it.date.k # "ok" THEN h
    ELSE IF it.url = "" THEN HvCrashed(h)
    ELSE LET c == AsTimezoneUtc(it.date.st, h.lo)
         IN  IF Seconds(c) > h.wm /\ c.y >= Ausblock_MIN_YEAR
             THEN AddPend(h, Pend(Row(Stamped(c, "+00:00"), AUSBLOCK, it.url,
                                      Title(it.url), ""), Seconds(c), TRUE, TRUE))
             ELSE h

\* A header routine that opens the file for writing whatever it holds.
Header_rewritten(f) == File(<<HeaderLine>>)

Ausblock_ensure_csv_header(f) == IF MissingOrEmpty(f) THEN File(<<HeaderLine>>) ELSE f

Ausblock_write(f, h, io) ==
    IF h.pend = <<>> \/ ~io THEN Written(f, <<>>)
    ELSE LET rows == RowsOf(SortByKey(h.pend))
         IN  Written(AppendLines(Ausblock_ensure_csv_header(f), rows, TRUE), rows)

\* Naive values are declared UTC (replace(tzinfo=utc)); aware ones are
\* converted (astimezone(utc)).
ToUtc(st) == IF st.aware THEN UtcCivil(st) ELSE st.c

\* A row as the scripts that render "+00:00" themselves write it.
UtcRow(c, source, url) == Row(Stamped(c, "+00:00"), source, url, Title(url), "")

PendUrls(pend) == {pend[i].row.url : i \in 1..Len(pend)}

(***************************************************************************)
(* decrypt.py                                                              *)
(***************************************************************************)
DECRYPT == "decrypt.co"

Decrypt_is_csv_new_or_empty(f) ==
    MissingOrEmpty(f) \/ ~(HasCol(f, "source") /\ HasCol(f, "url"))

Decrypt_seen_urls(f) ==
    IF Decrypt_is_csv_new_or_empty(f) THEN {} ELSE UrlsOfSource(f, DECRYPT)

\* threshold_date_utc
Decrypt_threshold == Civil(2025, 1, 1, 0, 0, 0)

Decrypt_entry(h, it) ==
    IF it.url = "" \/ it.date.k # "ok" THEN h
    ELSE LET c == ToUtc(it.date.st)
         IN  IF Seconds(c) < Seconds(Decrypt_threshold) THEN h
             ELSE IF it.url \in h.seen THEN h
             ELSE [AddPend(h, Pend(UtcRow(c, DECRYPT, it.url), Seconds(c), TRUE, TRUE))
                      EXCEPT !.seen = @ \cup {it.url}]

Decrypt_write(f, h, io) ==
    IF h.pend = <<>> \/ ~io THEN Written(f, <<>>)
    ELSE LET rows == RowsOf(SortByKey(h.pend))
             head == IF h.isNew THEN <<HeaderLine>> ELSE <<>>
         IN  Written(AppendLines(f, head \o rows, TRUE), rows)

(***************************************************************************)
(* asic.py                                                                 *)
(***************************************************************************)
ASIC == "asic.gov.au"

\* MIN_YEAR_YY = 24, compared as 2000 + MIN_YEAR_YY.
Asic_MIN_YEAR == 2000 + 24

\* extract_sort_key_from_url: (yy, number) of a media release address,
\* (99, 9999) for any other; "u1" is media release 25-001, "u2" a report.
Asic_sort_key(u) == IF u = "u1" THEN 25 * 10000 + 1 ELSE 99 * 10000 + 9999

\* Lines 310-374: a link of a listing page joins urls_to_process unless it
\* was checked before or is queued already.  The entry carries what the
\* article page will say when it is fetched (lines 402-436).
Asic_entry(h, it) ==
    IF it.url = "" \/ it.url \in h.seen \/ it.url \in PendUrls(h.pend) THEN h
    ELSE LET dated == it.date.k = "ok"
             c == IF dated THEN ToUtc(it.date.st) ELSE Now
             valid == dated /\ c.y >= Asic_MIN_YEAR
         IN  AddPend(h, Pend(UtcRow(c, ASIC, it.url), Asic_sort_key(it.url), TRUE,
                             valid /\ (it.kw \/ h.opt)))

RECURSIVE Kept(_)
Kept(pend) ==
    IF pend = <<>> THEN <<>>
    ELSE IF pend[1].keep THEN <<pend[1]>> \o Kept(Tail(pend)) ELSE Kept(Tail(pend))

\* Lines 445-461: pandas to_csv in mode 'a' under utf-8-sig; the byte
\* order mark is written only at the start of the file.
Asic_write(f, h, io) ==
    LET rows == RowsOf(Kept(SortByKey(h.pend)))
        head == IF MissingOrEmpty(f) THEN <<BomHeaderLine>> ELSE <<>>
    IN  IF rows = <<>> \/ ~io THEN Written(f, <<>>)
        ELSE Written(AppendLines(f, head \o rows, TRUE), rows)

\* save_checked_url for every address processed.
Asic_checked(h, chk) == chk \cup PendUrls(h.pend)

(***************************************************************************)
(* cryptonews.py                                                           *)
(***************************************************************************)
CRYPTONEWS == "cryptonews.com.au"

\* pandas.read_csv: the first line names the columns, the DataFrame holds
\* the lines after it; df.empty when there is none.
Cryptonews_df_empty(f) == ~f.exists \/ Len(f.lines) <= 1

Cryptonews_load_existing_articles(f) ==
    IF Cryptonews_df_empty(f) THEN {}
    ELSE IF HasCol(f, "source") /\ HasCol(f, "url") THEN UrlsOfSource(f, CRYPTONEWS)
    ELSE {}

\* strptime formats that carry neither a time of day nor an offset.
DateOnly(st) == ~st.aware /\ st.c.h = 0 /\ st.c.mi = 0 /\ st.c.s = 0

Cryptonews_MIN_YEAR == 2025

Cryptonews_entry(h, it) ==
    IF it.url = "" \/ it.date.k # "ok" THEN h
    ELSE IF ~DateOnly(it.date.st) THEN h
    ELSE IF it.date.st.c.y < Cryptonews_MIN_YEAR THEN h
    ELSE IF it.url \in h.seen THEN h
    ELSE [AddPend(h, Pend(Row(Stamped(it.date.st.c, "Z"), CRYPTONEWS, it.url,
                              Title(it.url), ""), Seconds(it.date.st.c), TRUE, TRUE))
             EXCEPT !.seen = @ \cup {it.url}]

Cryptonews_save_articles(f, h, io) ==
    IF h.pend = <<>> \/ ~io THEN Written(f, <<>>)
    ELSE LET rows == RowsOf(SortByKey(h.pend))
             head == IF ~f.exists \/ h.isNew THEN <<HeaderLine>> ELSE <<>>
         IN  Written(AppendLines(f, head \o rows, TRUE), rows)

(***************************************************************************)
(* dfcrc.py                                                                *)
(***************************************************************************)
DFCRC == "dfcrc.com.au"

DFCRC_PROJECT == "dfcrc.com.au/projects-cbdc-acacia"

DFCRC_MEDIA == "dfcrc.com.au/news/media-releases"

\* "u1" is the PDF of a project update, "u2" a media release.
Dfcrc_source(u) == IF u = "u1" THEN DFCRC_PROJECT ELSE DFCRC_MEDIA

Dfcrc_ensure_csv_header(f) == IF MissingOrEmpty(f) THEN File(<<HeaderLine>>) ELSE f

Dfcrc_rows(f) ==
    {j \in 2..Len(f.lines) : f.lines[j].source \in {DFCRC_PROJECT, DFCRC_MEDIA}}

Dfcrc_readable(f) ==
    ~MissingOrEmpty(f) /\ HasCol(f, "url") /\ HasCol(f, "title")
        /\ HasCol(f, "date") /\ HasCol(f, "source")

Dfcrc_seen_urls(f) ==
    IF Dfcrc_readable(f)
    THEN {f.lines[j].url : j \in {k \in Dfcrc_rows(f) : f.lines[k].url # ""}}
    ELSE {}

Dfcrc_seen_title_date(f) ==
    IF Dfcrc_readable(f)
    THEN {<<f.lines[j].title, f.lines[j].date>> : j \in Dfcrc_rows(f)}
    ELSE {}

\* The date of a project update (lines 136-177: from the heading, else
\* now) or of a media release (lines 239-247: an entry without a readable
\* date is skipped).  parse(...).replace(tzinfo=utc) keeps the civil
\* fields whatever offset the text states.
Dfcrc_entry(h, it) ==
    IF it.url = "" THEN h
    ELSE IF Dfcrc_source(it.url) = DFCRC_MEDIA /\ it.date.k # "ok" THEN h
    ELSE LET c == IF it.date.k = "ok" THEN it.date.st.c ELSE Now
             row == UtcRow(c, Dfcrc_source(it.url), it.url)
         IN  IF it.url \in h.seen \/ <<row.title, row.date>> \in h.seenTD THEN h
             ELSE [AddPend(h, Pend(row, Seconds(c), TRUE, TRUE))
                      EXCEPT !.seen = @ \cup {it.url},
                             !.seenTD = @ \cup {<<row.title, row.date>>}]

Dfcrc_append_to_csv(f, h, io) ==
    IF h.pend = <<>> \/ ~io THEN Written(f, <<>>)
    ELSE LET rows == RowsOf(SortByKey(h.pend))
         IN  Written(AppendLines(f, rows, TRUE), rows)

(***************************************************************************)
(* cointelegraph.py                                                        *)
(***************************************************************************)
COINTELEGRAPH == "cointelegraph.com"

MIN_ARTICLE_YEAR == 2025

\* The load_existing_urls shared, line for line, by cointelegraph.py,
\* australiandefiassociation.py and web3au.py: a missing or empty file is
\* created with the header.
LoadOrCreate(f, src, io) ==
    IF MissingOrEmpty(f) THEN [file |-> CreateWithHeader(f, io), seen |-> {}]
    ELSE IF HasCol(f, "url") /\ HasCol(f, "source")
         THEN [file |-> f, seen |-> UrlsOfSource(f, src)]
         ELSE [file |-> f, seen |-> {}]

\* unique_articles_by_url_dict[url] = art: a repeated address keeps its
\* first position and takes the last entry's data.
RECURSIVE PutByUrl(_, _)
PutByUrl(pend, p) ==
    IF pend = <<>> THEN <<p>>
    ELSE IF pend[1].row.url = p.row.url THEN <<p>> \o Tail(pend)
    ELSE <<pend[1]>> \o PutByUrl(Tail(pend), p)

\* Lines 426-451; keep records the three filters of lines 437-443.
Cointelegraph_entry(h, it) ==
    IF it.url = "" \/ it.date.k # "ok" THEN h
    ELSE LET c == ToUtc(it.date.st)
             keep == it.url \notin h.seen /\ c.y >= MIN_ARTICLE_YEAR /\ it.kw
         IN  [h EXCEPT !.pend = PutByUrl(@, Pend(UtcRow(c, COINTELEGRAPH, it.url),
                                               Seconds(c), TRUE, keep))]

Cointelegraph_append_to_csv(f, h, io) ==
    LET rows == RowsOf(SortByKey(Kept(h.pend)))
        head == IF MissingOrEmpty(f) THEN <<HeaderLine>> ELSE <<>>
    IN  IF rows = <<>> \/ ~io THEN Written(f, <<>>)
        ELSE Written(AppendLines(f, head \o rows, TRUE), rows)

(***************************************************************************)
(* regtechglobal.py                                                        *)
(***************************************************************************)
REGTECH == "regtechglobal.org"

Regtech_load_last_check_date_utc(f) ==
    LET default == Seconds(Now) - 30 * DaySeconds
    IN  IF MissingOrEmpty(f) \/ ~(HasCol(f, "source") /\ HasCol(f, "date")) THEN default
        ELSE LET last == MaxInstant(f, REGTECH, 2)
             IN  IF last >= 0 THEN last ELSE default

\* strptime(..., '%d %b %Y %I:%M %p'): minutes, no seconds, no offset.
MinuteFormat(st) == ~st.aware /\ st.c.s = 0

Regtech_MIN_YEAR == 2025

\* h.opt: the keyword file is missing or empty.
Regtech_entry(h, it) ==
    IF it.date.k # "ok" THEN h
    ELSE IF ~MinuteFormat(it.date.st) THEN h
    ELSE LET c == it.date.st.c
         IN  IF c.y < Regtech_MIN_YEAR THEN h
             ELSE IF Seconds(c) <= h.wm
                  THEN (IF h.opt THEN [h EXCEPT !.stop = TRUE] ELSE h)
             ELSE IF it.url = "" THEN h
             ELSE IF ~h.opt /\ ~it.kw THEN h
             ELSE AddPend(h, Pend(UtcRow(c, REGTECH, it.url), Seconds(c), TRUE, TRUE))

Regtech_append_articles_to_csv(f, h, io) ==
    IF h.pend = <<>> \/ ~io THEN Written(f, <<>>)
    ELSE LET rows == RowsOf(SortByKey(h.pend))
             head == IF MissingOrEmpty(f) THEN <<HeaderLine>> ELSE <<>>
         IN  Written(AppendLines(f, head \o rows, TRUE), rows)

(***************************************************************************)
(* australianfintech.py                                                    *)
(***************************************************************************)
FINTECH == "australianfintech.com.au"

Fintech_ensure_csv_header(f) == IF MissingOrEmpty(f) THEN File(<<HeaderLine>>) ELSE f

Fintech_load_seen_urls(f) ==
    IF ~MissingOrEmpty(f) /\ HasCol(f, "url") /\ HasCol(f, "source")
    THEN UrlsOfSource(f, FINTECH) ELSE {}

\* parse_article_date_and_title: the stated date in UTC, else now.
Fintech_parse_article_date(d) == IF d.k = "ok" THEN ToUtc(d.st) ELSE Now

Fintech_MIN_YEAR == 2025

Fintech_entry(h, it) ==
    IF it.url = "" \/ it.url \in h.seen THEN h
    ELSE LET c == Fintech_parse_article_date(it.date)
         IN  IF c.y < Fintech_MIN_YEAR THEN [h EXCEPT !.seen = @ \cup {it.url}]
             ELSE [AddPend(h, Pend(UtcRow(c, FINTECH, it.url), Seconds(c), TRUE, TRUE))
                      EXCEPT !.seen = @ \cup {it.url}]

Fintech_append_to_csv(f, h, io) ==
    IF h.pend = <<>> \/ ~io THEN Written(f, <<>>)
    ELSE LET rows == RowsOf(SortByKey(h.pend))
         IN  Written(AppendLines(f, rows, TRUE), rows)

(***************************************************************************)
(* australiandefiassociation.py                                            *)
(***************************************************************************)
DEFI == "australiandefiassociation.substack.com"

Defi_MIN_YEAR == 2025

\* entry.link of an entry without a link raises AttributeError.
Defi_entry(h, it) ==
    IF it.url = "" THEN HvCrashed(h)
    ELSE IF it.url \in h.seen THEN h
    ELSE LET c == IF it.date.k = "ok" THEN PublishedParsed(it.date.st) ELSE Now
         IN  IF c.y < Defi_MIN_YEAR THEN h
             ELSE AddPend(h, Pend(UtcRow(c, DEFI, it.url), Seconds(c), TRUE, TRUE))

Defi_append_articles_to_csv(f, h, io) ==
    IF h.pend = <<>> \/ ~io THEN Written(f, <<>>)
    ELSE LET rows == RowsOf(SortByKey(h.pend))
         IN  Written(AppendLines(f, rows, TRUE), rows)

(***************************************************************************)
(* web3au.py                                                               *)
(***************************************************************************)
WEB3AU == "www.web3au.media"

Web3au_MIN_YEAR == 2025

\* Lines 131 and 134 call datetime.now, and the module imports only
\* timezone from datetime: an entry without a readable date raises
\* NameError, which nothing catches.
Web3au_entry(h, it) ==
    IF it.url = "" \/ it.url \in h.seen THEN h
    ELSE IF it.date.k # "ok" THEN HvCrashed(h)
    ELSE LET c == ToUtc(it.date.st)
         IN  IF c.y < Web3au_MIN_YEAR THEN [h EXCEPT !.seen = @ \cup {it.url}]
             ELSE [AddPend(h, Pend(UtcRow(c, WEB3AU, it.url), Seconds(c), TRUE, TRUE))
                      EXCEPT !.seen = @ \cup {it.url}]

Web3au_save_new_articles_to_csv(f, h, io) ==
    IF h.pend = <<>> \/ ~io THEN Written(f, <<>>)
    ELSE LET rows == RowsOf(SortByKey(h.pend))
         IN  Written(AppendLines(f, rows, TRUE), rows)

(***************************************************************************)
(* Dispatch on the script being run.                                       *)
(***************************************************************************)
Harvesters ==
    {AUSTRAC, COINDESK, AUSBLOCK, DECRYPT, ASIC, CRYPTONEWS, DFCRC, COINTELEGRAPH,
     REGTECH, FINTECH, DEFI, WEB3AU}

\* The source cells a script writes.
SourcesOf(s) == IF s = DFCRC THEN {DFCRC_PROJECT, DFCRC_MEDIA} ELSE {s}

Loaded(f, seen, seenTD, isNew, wm, crash) ==
    [file |-> f, seen |-> seen, seenTD |-> seenTD, isNew |-> isNew, wm |-> wm,
     crash |-> crash]

\* What a script does before it reads the first upstream item; chk is the
\* content of asic_checked.txt.  io = FALSE: creating the file raises.
Load(s, f, chk, io) ==
    CASE s = AUSTRAC ->
            LET r == Austrac_load_existing_urls(f, io)
            IN  Loaded(r.file, r.seen, {}, FALSE, 0, FALSE)
      [] s = COINDESK -> Loaded(f, Coindesk_load_existing_urls(f), {}, FALSE, 0, FALSE)
      [] s = AUSBLOCK -> Loaded(f, {}, {}, FALSE, Ausblock_load_last_date(f), FALSE)
      [] s = DECRYPT ->
            Loaded(f, Decrypt_seen_urls(f), {}, Decrypt_is_csv_new_or_empty(f), 0, FALSE)
      [] s = ASIC -> Loaded(f, chk, {}, FALSE, 0, FALSE)
      [] s = CRYPTONEWS ->
            Loaded(f, Cryptonews_load_existing_articles(f), {}, Cryptonews_df_empty(f),
                   0, FALSE)
      [] s = DFCRC ->
            IF MissingOrEmpty(f) /\ ~io THEN Loaded(f, {}, {}, FALSE, 0, TRUE)
            ELSE LET g == Dfcrc_ensure_csv_header(f)
                 IN  Loaded(g, Dfcrc_seen_urls(g), Dfcrc_seen_title_date(g), FALSE, 0, FALSE)
      [] s = REGTECH ->
            Loaded(f, {}, {}, FALSE, Regtech_load_last_check_date_utc(f), FALSE)
      [] s = FINTECH ->
            IF MissingOrEmpty(f) /\ ~io THEN Loaded(f, {}, {}, FALSE, 0, TRUE)
            ELSE LET g == Fintech_ensure_csv_header(f)
                 IN  Loaded(g, Fintech_load_seen_urls(g), {}, FALSE, 0, FALSE)
      [] s \in {COINTELEGRAPH, DEFI, WEB3AU} ->
            LET r == LoadOrCreate(f, s, io)
            IN  Loaded(r.file, r.seen, {}, FALSE, 0, FALSE)

\* The body of the loop over the upstream items.
Entry(s, h, it) ==
    CASE s = AUSTRAC -> Austrac_entry(h, it)
      [] s = COINDESK -> Coindesk_entry(h, it)
      [] s = AUSBLOCK -> Ausblock_entry(h, it)
      [] s = DECRYPT -> Decrypt_entry(h, it)
      [] s = ASIC -> Asic_entry(h, it)
      [] s = CRYPTONEWS -> Cryptonews_entry(h, it)
      [] s = DFCRC -> Dfcrc_entry(h, it)
      [] s = COINTELEGRAPH -> Cointelegraph_entry(h, it)
      [] s = REGTECH -> Regtech_entry(h, it)
      [] s = FINTECH -> Fintech_entry(h, it)
      [] s = DEFI -> Defi_entry(h, it)
      [] s = WEB3AU -> Web3au_entry(h, it)

\* What a script does after the loop: order the new articles, append them.
\* io = FALSE: opening the file for append raises.
WriteOut(s, f, h, io) ==
    CASE s = AUSTRAC -> Austrac_write(f, h, io)
      [] s = COINDESK -> Coindesk_append_to_csv(f, h, io)
      [] s = AUSBLOCK -> Ausblock_write(f, h, io)
      [] s = DECRYPT -> Decrypt_write(f, h, io)
      [] s = ASIC -> Asic_write(f, h, io)
      [] s = CRYPTONEWS -> Cryptonews_save_articles(f, h, io)
      [] s = DFCRC -> Dfcrc_append_to_csv(f, h, io)
      [] s = COINTELEGRAPH -> Cointelegraph_append_to_csv(f, h, io)
      [] s = REGTECH -> Regtech_append_articles_to_csv(f, h, io)
      [] s = FINTECH -> Fintech_append_to_csv(f, h, io)
      [] s = DEFI -> Defi_append_articles_to_csv(f, h, io)
      [] s = WEB3AU -> Web3au_save_new_articles_to_csv(f, h, io)

\* The scripts whose result depends on the machine's time zone.
UsesLocalTime(s) == s \in {AUSTRAC, AUSBLOCK}

\* The scripts that run with or without a keyword list.
KeywordsOptional(s) == s \in {ASIC, REGTECH}

(***************************************************************************)
(* Harvester actions.                                                      *)
(***************************************************************************)
\* seq: the scripts are run one after the other, so that no harvester
\* starts while the notifier runs.
H_Start(s, lo, opt, io, seq) ==
    /\ hv.pc = "idle"
    /\ seq => (nt.pc = "idle" /\ pb.pc = "idle")
    /\ ArticleRows(ledger) < MaxRows
    /\ lo = 0 \/ UsesLocalTime(s)
    /\ ~opt \/ KeywordsOptional(s)
    /\ LET r == Load(s, ledger, checked, io)
       IN  /\ ledger' = r.file
           /\ hv' = IF r.crash THEN HvCrashed([HvIdle EXCEPT !.src = s, !.old = ledger.lines])
                    ELSE [HvIdle EXCEPT !.pc = "run", !.src = s, !.lo = lo, !.opt = opt,
                                        !.seen = r.seen, !.seenTD = r.seenTD,
                                        !.isNew = r.isNew, !.wm = r.wm,
                                        !.old = ledger.lines]
    /\ UNCHANGED <<checked, nt, pb, pg>>

H_Item(it) ==
    /\ hv.pc = "run"
    /\ ~hv.stop
    /\ ArticleRows(ledger) + Len(hv.pend) < MaxRows
    /\ hv' = Entry(hv.src, hv, it)
    /\ UNCHANGED <<ledger, checked, nt, pb, pg>>

\* What the failure of one request for a listing page, feed or search
\* result does to the run.  The scripts that read a single listing or feed
\* end with no entries; ausblock.py leaves its paging loop; decrypt.py
\* catches TimeoutException alone around driver.get, so that the
\* WebDriverException of a network error leaves main; the other scripts go
\* on with the next page.
FetchErrors == {"timeout", "http", "network"}

SinglePage(s) == s \in {AUSTRAC, COINDESK, REGTECH, FINTECH, DEFI, WEB3AU}

FetchFailed(s, h, err) ==
    CASE s = AUSBLOCK -> [h EXCEPT !.stop = TRUE]
      [] s = DECRYPT -> IF err = "network" THEN HvCrashed(h) ELSE h
      [] s \in {ASIC, CRYPTONEWS, DFCRC, COINTELEGRAPH} -> h
      [] SinglePage(s) -> [h EXCEPT !.stop = TRUE]

\* A request fails.  The single request of a single-page script precedes
\* every entry.
H_FetchFail(err) ==
    /\ hv.pc = "run"
    /\ ~hv.stop
    /\ SinglePage(hv.src) => hv.pend = <<>>
    /\ hv' = FetchFailed(hv.src, hv, err)
    /\ UNCHANGED <<ledger, checked, nt, pb, pg>>

H_Finish(io) ==
    /\ hv.pc = "run"
    /\ LET w == WriteOut(hv.src, ledger, hv, io)
       IN  /\ ledger' = w.file
           /\ hv' = HvDone(hv, w.batch)
    /\ checked' = IF hv.src = ASIC THEN Asic_checked(hv, checked) ELSE checked
    /\ UNCHANGED <<nt, pb, pg>>

\* The script's process ends.
H_Exit ==
    /\ hv.pc = "done"
    /\ hv' = HvIdle
    /\ UNCHANGED <<ledger, checked, nt, pb, pg>>

\* Runs of the scripts S against upstream items drawn from I.
Harvest(S, I, seq) ==
    \/ \E s \in S, lo \in LocalOffsets, opt \in BOOLEAN, io \in BOOLEAN :
          H_Start(s, lo, opt, io, seq)
    \/ \E it \in I : H_Item(it)
    \/ \E io \in BOOLEAN : H_Finish(io)
    \/ H_Exit

(***************************************************************************)
(* telegrambotsender.py: process_csv, one step per row.                    *)
(***************************************************************************)
\* rows: all_rows_data; i: the loop index; ok: rows_to_update_indices.  att
\* (the rows a delivery was attempted for), log (the same rows, one entry
\* per attempt, in the order of the attempts), old (the lines of the ledger
\* when the run started) and wrote (the rewrite was done) record the run for
\* the properties below.
NtIdle ==
    [pc |-> "idle", rows |-> <<>>, i |-> 0, att |-> {}, log |-> <<>>, ok |-> {},
     wrote |-> FALSE, old |-> <<>>]

NtDone(n, wrote) == [n EXCEPT !.pc = "done", !.wrote = wrote]

\* Lines 85-128: create a missing or empty file, or read every row.
N_Start(io, seq) ==
    /\ nt.pc = "idle"
    /\ seq => hv.pc = "idle"
    /\ IF MissingOrEmpty(ledger)
       THEN /\ ledger' = CreateWithHeader(ledger, io)
            /\ nt' = NtDone([NtIdle EXCEPT !.old = ledger.lines], FALSE)
       ELSE /\ ledger' = ledger
            /\ nt' = IF ~HeaderMatches(ledger) \/ DataRows(ledger) = <<>>
                     THEN NtDone([NtIdle EXCEPT !.old = ledger.lines], FALSE)
                     ELSE [NtIdle EXCEPT !.pc = "loop", !.rows = DataRows(ledger),
                                         !.i = 1, !.old = ledger.lines]
    /\ UNCHANGED <<checked, hv, pb, pg>>

\* Lines 87-98 as the two system calls they are, for the runs in which
\* another process writes the file between them.  Line 87: the file is
\* found missing or empty.
N_Observe ==
    /\ nt.pc = "idle"
    /\ MissingOrEmpty(ledger)
    /\ nt' = [NtIdle EXCEPT !.pc = "init", !.old = ledger.lines]
    /\ UNCHANGED <<ledger, checked, hv, pb, pg>>

\* Lines 90-95: open(CSV_FILE_PATH, 'w') and the header, then return.
N_Create(io) ==
    /\ nt.pc = "init"
    /\ ledger' = CreateWithHeader(ledger, io)
    /\ nt' = NtDone(nt, FALSE)
    /\ UNCHANGED <<checked, hv, pb, pg>>

\* A loop that takes every row for a new entry.
Pending_always(row) == TRUE

\* Line 141: the done cell, stripped, is not the check mark.
Pending(row) == Strip(row.done) # CHECK_MARK

\* A loop that a delivery which fails or raises brings to its end.
N_Row_until_failure(out) ==
    /\ nt.pc = "loop"
    /\ nt.i <= Len(nt.rows)
    /\ nt' = IF Pending(nt.rows[nt.i])
             THEN [nt EXCEPT !.i = IF out = "ok" THEN @ + 1 ELSE Len(nt.rows) + 1,
                             !.att = @ \cup {nt.i}, !.log = Append(@, nt.i),
                             !.ok = IF out = "ok" THEN @ \cup {nt.i} ELSE @]
             ELSE [nt EXCEPT !.i = @ + 1]
    /\ UNCHANGED <<ledger, checked, hv, pb, pg>>

\* A loop that stays on a row until its delivery succeeds.
N_Row_retry(out) ==
    /\ nt.pc = "loop"
    /\ nt.i <= Len(nt.rows)
    /\ nt' = IF Pending(nt.rows[nt.i])
             THEN [nt EXCEPT !.i = IF out = "ok" THEN @ + 1 ELSE @,
                             !.att = @ \cup {nt.i}, !.log = Append(@, nt.i),
                             !.ok = IF out = "ok" THEN @ \cup {nt.i} ELSE @]
             ELSE [nt EXCEPT !.i = @ + 1]
    /\ UNCHANGED <<ledger, checked, hv, pb, pg>>

\* Lines 133-167: one iteration of the loop; out is what the delivery did:
\* returned True ("ok"), returned False ("fail"), or raised ("raise").
N_Row(out) ==
    /\ nt.pc = "loop"
    /\ nt.i <= Len(nt.rows)
    /\ nt' = IF Pending(nt.rows[nt.i])
             THEN [nt EXCEPT !.i = @ + 1, !.att = @ \cup {nt.i}, !.log = Append(@, nt.i),
                             !.ok = IF out = "ok" THEN @ \cup {nt.i} ELSE @]
             ELSE [nt EXCEPT !.i = @ + 1]
    /\ UNCHANGED <<ledger, checked, hv, pb, pg>>

\* An update that marks every row read.
Marked_all(rows, ok) == [i \in 1..Len(rows) |-> [rows[i] EXCEPT !.done = CHECK_MARK]]

\* An update that keeps the delivered rows only.
Marked_only(rows, ok) ==
    LET Delivered(r) == \E i \in ok : rows[i] = r
    IN  [i \in 1..Len(SelectSeq(rows, Delivered)) |->
            [SelectSeq(rows, Delivered)[i] EXCEPT !.done = CHECK_MARK]]

\* Lines 173-179: the in-memory rows with the delivered ones marked.
Marked(rows, ok) ==
    [i \in 1..Len(rows) |-> IF i \in ok THEN [rows[i] EXCEPT !.done = CHECK_MARK] ELSE rows[i]]

\* Lines 171-192: rewrite the whole file when some delivery succeeded.
N_Finish(io) ==
    /\ nt.pc = "loop"
    /\ nt.i > Len(nt.rows)
    /\ IF nt.ok # {} /\ io
       THEN /\ ledger' = File(<<HeaderLine>> \o Marked(nt.rows, nt.ok))
            /\ nt' = NtDone(nt, TRUE)
       ELSE /\ ledger' = ledger
            /\ nt' = NtDone(nt, FALSE)
    /\ UNCHANGED <<checked, hv, pb, pg>>

\* The notifier's process ends.
N_Exit ==
    /\ nt.pc = "done"
    /\ nt' = NtIdle
    /\ UNCHANGED <<ledger, checked, hv, pb, pg>>

Outcomes == {"ok", "fail", "raise"}

Notify(seq) ==
    \/ \E io \in BOOLEAN : N_Start(io, seq)
    \/ \E out \in Outcomes : N_Row(out)
    \/ \E io \in BOOLEAN : N_Finish(io)
    \/ N_Exit

(***************************************************************************)
(* ausblock.py: fetch_all_posts, one step per request.                     *)
(***************************************************************************)
PAGE_SIZE == 100

\* The largest number of posts the site holds.
MaxPosts == 250

\* n: the number of posts the site holds, newest first, served PAGE_SIZE to
\* a page; page: the page asked for next; got: the posts read so far; reqs
\* (the pages asked for, in order) and why (what ended the loop) record the
\* call for the properties below.
PgIdle == [pc |-> "idle", n |-> 0, page |-> 1, got |-> 0, reqs |-> <<>>, why |-> ""]

\* The posts on page p of n.
PageOf(n, p) ==
    LET rest == n - (p - 1) * PAGE_SIZE
    IN  IF rest <= 0 THEN 0 ELSE IF rest < PAGE_SIZE THEN rest ELSE PAGE_SIZE

\* Lines 53-54: out = [], page = 1.
Pg_Start(n) ==
    /\ pg.pc = "idle"
    /\ hv.pc = "idle" /\ nt.pc = "idle" /\ pb.pc = "idle"
    /\ pg' = [PgIdle EXCEPT !.pc = "paging", !.n = n]
    /\ UNCHANGED <<ledger, checked, hv, nt, pb>>

\* A loop that asks for the same page again after a full one.
Pg_Request_same_page(fail) ==
    /\ pg.pc = "paging"
    /\ LET data == PageOf(pg.n, pg.page)
           asked == [pg EXCEPT !.reqs = Append(@, pg.page)]
       IN  pg' = IF fail THEN [asked EXCEPT !.pc = "back", !.why = "failed"]
                 ELSE IF data = 0 THEN [asked EXCEPT !.pc = "back", !.why = "empty"]
                 ELSE IF data < PAGE_SIZE
                      THEN [asked EXCEPT !.pc = "back", !.why = "short", !.got = @ + data]
                 ELSE [asked EXCEPT !.got = @ + data]
    /\ UNCHANGED <<ledger, checked, hv, nt, pb>>

\* Lines 55-102: one iteration of while True.  fail: the request raises
\* (timeout, connection error, an HTTP error status such as the one the
\* site answers past its last page, or a body that is not JSON).
Pg_Request(fail) ==
    /\ pg.pc = "paging"
    /\ LET data == PageOf(pg.n, pg.page)
           asked == [pg EXCEPT !.reqs = Append(@, pg.page)]
       IN  pg' = IF fail THEN [asked EXCEPT !.pc = "back", !.why = "failed"]
                 ELSE IF data = 0 THEN [asked EXCEPT !.pc = "back", !.why = "empty"]
                 ELSE IF data < PAGE_SIZE
                      THEN [asked EXCEPT !.pc = "back", !.why = "short", !.got = @ + data]
                 ELSE [asked EXCEPT !.got = @ + data, !.page = @ + 1]
    /\ UNCHANGED <<ledger, checked, hv, nt, pb>>

(***************************************************************************)
(* commit_and_push_articles.py                                             *)
(***************************************************************************)
\* The three commands of main, in the order main runs them.
Commands == <<"add", "commit", "push">>

\* The return codes of a git command: success, failure, a fatal error, and
\* the negative signal number of a command killed by SIGTERM.
ReturnCodes == {0, 1, 128, 0 - 15}

\* A check that takes every return code for success.
Failed_never(rc) == FALSE

\* Line 6: result.returncode != 0
Failed(rc) == rc # 0

\* sys.exit(n): the status the process ends with is n modulo 256.
ExitStatus(n) == n % 256

\* ran: the commands run so far with their return codes; err: the error
\* output was printed; status: the exit status, once the process has ended.
PbIdle == [pc |-> "idle", ran |-> <<>>, err |-> FALSE, status |-> 0]

P_Start ==
    /\ pb.pc = "idle"
    /\ hv.pc = "idle"
    /\ nt.pc = "idle"
    /\ pb' = [PbIdle EXCEPT !.pc = "run"]
    /\ UNCHANGED <<ledger, checked, hv, nt, pg>>

\* run_command for the next command of main; rc is its return code.
P_Command(rc) ==
    /\ pb.pc = "run"
    /\ LET ran == Append(pb.ran, [cmd |-> Commands[Len(pb.ran) + 1], rc |-> rc])
       IN  pb' = IF Failed(rc)
                 THEN [pb EXCEPT !.pc = "exited", !.ran = ran, !.err = TRUE,
                                 !.status = ExitStatus(rc)]
                 ELSE IF Len(ran) = Len(Commands)
                      THEN [pb EXCEPT !.pc = "exited", !.ran = ran, !.status = 0]
                      ELSE [pb EXCEPT !.ran = ran]
    /\ UNCHANGED <<ledger, checked, hv, nt, pg>>

\* The publisher's process is gone.
P_Exit ==
    /\ pb.pc = "exited"
    /\ pb' = PbIdle
    /\ UNCHANGED <<ledger, checked, hv, nt, pg>>

Publish ==
    \/ P_Start
    \/ \E rc \in ReturnCodes : P_Command(rc)
    \/ P_Exit

(***************************************************************************)
(* Specifications.                                                         *)
(***************************************************************************)
\* The ledger before any script has run: missing, zero bytes, or holding
\* the header only.
InitialLedgers == {NoFile, File(<<>>), File(<<HeaderLine>>)}

Init ==
    /\ ledger \in InitialLedgers
    /\ checked = {}
    /\ hv = HvIdle
    /\ nt = NtIdle
    /\ pb = PbIdle
    /\ pg = PgIdle

\* Harvester runs, one after the other.
Next == Harvest(Harvesters, Items, TRUE)

Spec == Init /\ [][Next]_vars

\* Upstream items for the runs whose effect on the file is examined: two
\* dated articles, an entry without a link, one without a date and one with
\* a date that cannot be read.
FrameItems ==
    {Item("u1", OkDate(StampJan), TRUE), Item("u2", OkDate(StampFeb), TRUE),
     Item("", OkDate(StampFeb), TRUE), Item("u1", NoDate, TRUE),
     Item("u2", BadDate, TRUE)}

NextFrame == Harvest(Harvesters, FrameItems, TRUE)

\* Harvester runs, one after the other, against the items FrameItems.
SpecFrame == Init /\ [][NextFrame]_vars

\* 05:00 on New Year's Day in Sydney: 19:00 on 31 December 2024 in UTC.
StampNewYearSydney == Aware(Civil(2025, 1, 1, 5, 0, 0), 10)

\* 20:00 on 31 December 2024 in New York: 01:00 on 1 January 2025 in UTC.
StampNewYearsEveNewYork == Aware(Civil(2024, 12, 31, 20, 0, 0), 0 - 5)

\* Upstream items dated around the turn of the year, with and without a
\* stated offset.
DateItems ==
    {Item("u1", OkDate(StampNewYearSydney), TRUE),
     Item("u2", OkDate(StampNewYearsEveNewYork), TRUE),
     Item("u1", OkDate(StampJan), TRUE), Item("u2", OkDate(StampOld), TRUE)}

\* Harvester runs, one after the other, against the items DateItems.
SpecDate == Init /\ [][Harvest(Harvesters, DateItems, TRUE)]_vars

\* The scripts run beside the notifier: one that never writes a header,
\* one that writes it with its rows, one that writes it behind a byte order
\* mark, and one that repeats it.
NotifyHarvesters == {AUSTRAC, COINDESK, ASIC, CRYPTONEWS}

\* Harvester and notifier runs, one after the other.
NextNotify == Harvest(NotifyHarvesters, Items, TRUE) \/ Notify(TRUE)

SpecNotify == Init /\ [][NextNotify]_vars

\* The scripts run while the notifier runs.
ConcHarvesters == {AUSTRAC, COINDESK}

\* A notifier run interleaved with harvester runs, step by step.
SpecConc == Init /\ [][Harvest(ConcHarvesters, Items, FALSE) \/ Notify(FALSE)]_vars

\* A first line that names the date, source and url columns otherwise.
WrongHeaderLine == Row(Lit("published"), "site", "link", "title", "done")

\* A ledger whose header is malformed, with and without a row under it.
InitHeader ==
    /\ ledger \in {File(<<WrongHeaderLine>>),
                   File(<<WrongHeaderLine, UtcRow(StampJan.c, AUSTRAC, "u1")>>)}
    /\ checked = {}
    /\ hv = HvIdle
    /\ nt = NtIdle
    /\ pb = PbIdle
    /\ pg = PgIdle

\* Harvester runs, one after the other, on a ledger with a malformed header.
SpecHeader == InitHeader /\ [][NextFrame]_vars

\* Harvester runs, one after the other, in which requests may fail.
SpecFetch ==
    Init /\ [][Harvest(Harvesters, FrameItems, TRUE)
                 \/ \E err \in FetchErrors : H_FetchFail(err)]_vars

\* Runs of every script and of the notifier, one after the other, in which
\* no operation on the file fails.
NextSound ==
    \/ \E s \in Harvesters, lo \in LocalOffsets, opt \in BOOLEAN :
          H_Start(s, lo, opt, TRUE, TRUE)
    \/ \E it \in FrameItems : H_Item(it)
    \/ H_Finish(TRUE)
    \/ H_Exit
    \/ N_Start(TRUE, TRUE)
    \/ \E out \in Outcomes : N_Row(out)
    \/ N_Finish(TRUE)
    \/ N_Exit

SpecSound == Init /\ [][NextSound]_vars

\* Runs of one harvester and of the publisher, one after the other.
SpecPublish == Init /\ [][Harvest({COINTELEGRAPH}, FrameItems, TRUE) \/ Publish]_vars

(***************************************************************************)
(* Properties of harvester runs.                                           *)
(***************************************************************************)
IsPrefix(a, b) == Len(a) <= Len(b) /\ SubSeq(b, 1, Len(a)) = a

\* An article row: a line that is not a header line.
IsArticle(line) == line.source # "source"

PairOf(line) == <<line.source, line.url>>

\* The source/url pairs of the article rows among lines.
ArticlePairs(lines) == {PairOf(lines[i]) : i \in {j \in 1..Len(lines) : IsArticle(lines[j])}}

\* C1: in every ledger reached by complete harvester runs, one after the
\* other, no two article rows have the same (source, url) pair.
C1_UniquePairs ==
    \A i, j \in 1..Len(ledger.lines) :
        (i < j /\ IsArticle(ledger.lines[i]) /\ IsArticle(ledger.lines[j]))
            => PairOf(ledger.lines[i]) # PairOf(ledger.lines[j])

\* C2: a finished run has appended no row whose (source, url) pair was on
\* the ledger when the run started.
C2_NoReappend ==
    hv.pc = "done" =>
        \A i \in 1..Len(hv.batch) : PairOf(hv.batch[i]) \notin ArticlePairs(hv.old)

\* C3: the date of every row a finished run appended is a timestamp
\* followed by the literal offset +00:00.
C3_DateForm ==
    hv.pc = "done" =>
        \A i \in 1..Len(hv.batch) :
            hv.batch[i].date.lit = "" /\ hv.batch[i].date.suf = "+00:00"

\* The minimum year of the scripts that state one; dfcrc.py states none.
HasMinYear(s) == s # DFCRC

MinYear(s) ==
    CASE s = AUSTRAC -> Austrac_MIN_YEAR
      [] s = COINDESK -> Coindesk_MIN_YEAR
      [] s = AUSBLOCK -> Ausblock_MIN_YEAR
      [] s = DECRYPT -> Decrypt_threshold.y
      [] s = ASIC -> Asic_MIN_YEAR
      [] s = CRYPTONEWS -> Cryptonews_MIN_YEAR
      [] s = COINTELEGRAPH -> MIN_ARTICLE_YEAR
      [] s = REGTECH -> Regtech_MIN_YEAR
      [] s = FINTECH -> Fintech_MIN_YEAR
      [] s = DEFI -> Defi_MIN_YEAR
      [] s = WEB3AU -> Web3au_MIN_YEAR
      [] OTHER -> 0

\* C4: no row appended by a script with minimum year Y denotes an instant
\* whose year in UTC is below Y.
C4_MinYearKept ==
    (hv.pc = "done" /\ HasMinYear(hv.src)) =>
        \A i \in 1..Len(hv.batch) : CellUtcYear(hv.batch[i].date) >= MinYear(hv.src)

\* C5: the rows a finished run appended are in non-decreasing order of the
\* instants their date cells denote.
C5_BatchOrdered ==
    hv.pc = "done" =>
        \A i, j \in 1..Len(hv.batch) :
            i < j => CellSeconds(hv.batch[i].date) <= CellSeconds(hv.batch[j].date)

\* C6: from the start of a harvester run to its end the lines the ledger
\* held when the run started (the header and every data row) stay an
\* unchanged prefix of the ledger.
C6_PrefixKept == hv.pc # "idle" => IsPrefix(hv.old, ledger.lines)

\* A run that found article rows on the ledger and appended rows after them.
C6_Witness ==
    /\ hv.pc = "done"
    /\ hv.batch # <<>>
    /\ ArticlePairs(hv.old) # {}
    /\ IsPrefix(hv.old, ledger.lines)

(***************************************************************************)
(* Properties of notifier runs.                                            *)
(***************************************************************************)
\* The line of the ledger that holds the i-th row the notifier read.
LedgerRow(i) == ledger.lines[i + 1]

\* The rewrite of lines 181-192 was due and did not happen.
RewriteFailed == nt.ok # {} /\ ~nt.wrote

\* The rows of a finished run are the data rows of the ledger, line by line.
RowsInPlace == Len(ledger.lines) = Len(nt.rows) + 1

ChangedToMark(i) == nt.rows[i].done # CHECK_MARK /\ LedgerRow(i).done = CHECK_MARK

Content(line) == [date |-> line.date, source |-> line.source, url |-> line.url,
                  title |-> line.title]

\* The lines after the first of a and of b are as many and agree, one by
\* one, in every cell but done.
SameButDone(a, b) ==
    /\ Len(DataRows(File(a))) = Len(DataRows(File(b)))
    /\ \A i \in 2..Len(a) : Content(a[i]) = Content(b[i])

C10_AppendedKept ==
    hv.pc = "done" =>
        \A i \in 1..Len(hv.batch) :
            \E k \in 1..Len(ledger.lines) : Content(ledger.lines[k]) = Content(hv.batch[i])

(***************************************************************************)
(* Properties of the load step and of the header.                          *)
(***************************************************************************)
\* C11: the load step of a harvester that starts on a missing or zero-byte
\* ledger, the creation of the file not failing, yields the empty url set
\* and leaves the ledger in existence with the fixed header as its first
\* line.
C11_LoadCreates ==
    [][\A s \in Harvesters, lo \in LocalOffsets, opt \in BOOLEAN :
          (MissingOrEmpty(ledger) /\ H_Start(s, lo, opt, TRUE, TRUE))
              => (hv'.seen = {} /\ HeaderMatches(ledger'))]_vars

\* The first of lines does not name the url, source and date columns.
Malformed(lines) ==
    /\ lines # <<>>
    /\ ~(HasCol(File(lines), "url") /\ HasCol(File(lines), "source")
            /\ HasCol(File(lines), "date"))

\* C12: a harvester run that found a malformed header on the ledger has
\* left the lines of the ledger as they were.
C12_MalformedUntouched == (hv.pc = "done" /\ Malformed(hv.old)) => ledger.lines = hv.old

\* C13: a notifier run that read a ledger whose first line is not the
\* header ['date','source','url','title','done'] attempts no delivery and
\* leaves the ledger as it was.
C13_BadHeaderNoDelivery ==
    (nt.pc # "idle" /\ nt.old # <<>> /\ nt.old[1] # HeaderLine) =>
        (nt.log = <<>> /\ ledger.exists /\ ledger.lines = nt.old)

\* A finished run on a ledger that starts with an article row and holds a
\* row not yet delivered.
C13_Witness ==
    /\ nt.pc = "done"
    /\ Len(nt.old) >= 2
    /\ IsArticle(nt.old[1])
    /\ \E i \in 2..Len(nt.old) : nt.old[i].done # CHECK_MARK
    /\ nt.log = <<>>
    /\ ledger.lines = nt.old

\* C19: between the runs of the harvesters and of the notifier the first
\* line of a ledger that holds lines is the fixed header and no later line
\* is a header row.
C19_OneHeader ==
    (hv.pc = "idle" /\ nt.pc = "idle" /\ ledger.exists /\ Len(ledger.lines) > 0) =>
        /\ [ledger.lines[1] EXCEPT !.bom = FALSE] = HeaderLine
        /\ \A i \in 2..Len(ledger.lines) : IsArticle(ledger.lines[i])

(***************************************************************************)
(* Properties of what a harvester run does with the upstream entries.      *)
(***************************************************************************)
\* C14: the failure of one request neither ends the run before its write
\* step nor drops an entry the run has collected.
C14_FetchFailureSurvived ==
    [][(\E err \in FetchErrors : H_FetchFail(err))
          => (hv'.pc = "run" /\ hv'.pend = hv.pend)]_vars

\* C15: no row a finished run appended lacks a url or carries the time of
\* the run as its date; every date the entries of FrameItems state differs
\* from that time, so that such a row stands for an entry without a
\* readable date.
C15_UndatedDropped ==
    hv.pc = "done" =>
        \A i \in 1..Len(hv.batch) : hv.batch[i].url # "" /\ hv.batch[i].date.c # Now

\* The civil time in UTC of a stated date, a date without offset being UTC.
StatedUtc(st) == IF st.aware THEN ShiftHours(st.c, 0 - st.off) ELSE st.c

\* The date cells C16 allows for the url u: one for each entry of
\* DateItems with that url.
StatedCells(u) ==
    {Stamped(StatedUtc(it.date.st), "+00:00") : it \in {x \in DateItems : x.url = u}}

\* C16: the date of every row a finished run appended is the stated date
\* of an entry with the row's url, field for field when the entry states
\* no offset and converted to UTC when it states one, followed by +00:00,
\* whatever the time zone of the machine.
C16_NaiveIsUtc ==
    hv.pc = "done" =>
        \A i \in 1..Len(hv.batch) : hv.batch[i].date \in StatedCells(hv.batch[i].url)

\* C18: the rows a finished run appended have pairwise different urls.
C18_BatchUrlsDiffer ==
    hv.pc = "done" =>
        \A i, j \in 1..Len(hv.batch) : i < j => hv.batch[i].url # hv.batch[j].url

(***************************************************************************)
(* Properties of the publisher.                                            *)
(***************************************************************************)
\* C17: the commands the publisher has run are stage, commit, push in that
\* order, each run only after those before it returned 0; a command that
\* fails ends the process, with the error printed and a status other than 0.
C17_PublishInOrder ==
    /\ Len(pb.ran) <= Len(Commands)
    /\ \A i \in 1..Len(pb.ran) :
          /\ pb.ran[i].cmd = Commands[i]
          /\ \A j \in 1..(i - 1) : pb.ran[j].rc = 0
    /\ \A i \in 1..Len(pb.ran) :
          pb.ran[i].rc # 0 => (pb.pc = "exited" /\ pb.err /\ pb.status # 0)

\* Staging succeeded, the commit failed, and no push was run.
C17_Witness ==
    /\ pb.pc = "exited"
    /\ Len(pb.ran) = 2
    /\ pb.ran[1].rc = 0
    /\ pb.ran[2].rc # 0
    /\ pb.status # 0

(***************************************************************************)
(* Properties of the deliveries of a notifier run.                         *)
(***************************************************************************)
\* The number of deliveries attempted for the i-th row.
Attempts(i) == Cardinality({k \in 1..Len(nt.log) : nt.log[k] = i})

\* C20: every row the loop of a notifier run has passed got one delivery
\* attempt when its done flag was not '+' and none when it was, whatever
\* the deliveries of the rows before it did; a finished run has passed
\* every row.
C20_EachPendingOnce ==
    /\ nt.pc = "loop" =>
          \A i \in 1..(nt.i - 1) :
              Attempts(i) = IF nt.rows[i].done # CHECK_MARK THEN 1 ELSE 0
    /\ (nt.pc = "done" /\ nt.rows # <<>>) =>
          \A i \in 1..Len(nt.rows) :
              Attempts(i) = IF nt.rows[i].done # CHECK_MARK THEN 1 ELSE 0

\* Two pending rows: the delivery of the first failed or raised, the second
\* was attempted all the same and delivered.
C20_Witness ==
    /\ nt.pc = "done"
    /\ Len(nt.rows) = 2
    /\ nt.log = <<1, 2>>
    /\ nt.ok = {2}


(***************************************************************************)
(* C21: within one run of the notifier the deliveries are attempted one at *)
(* a time in the order of the rows, and between two consecutive attempts   *)
(* the run takes a delay step.  nt.log holds what the loop of lines        *)
(* 133-167 did, in order; an attempt is an entry that is a row index, and  *)
(* a delay would be an entry between two of them.                          *)
(***************************************************************************)
IsAttempt(e) == e \in 1..Len(nt.rows)

C21_DelayBetweenAttempts ==
    /\ \A j, k \in 1..Len(nt.log) :
          (j < k /\ IsAttempt(nt.log[j]) /\ IsAttempt(nt.log[k])) => nt.log[j] < nt.log[k]
    /\ \A k \in 1..(Len(nt.log) - 1) :
          IsAttempt(nt.log[k]) => ~IsAttempt(nt.log[k + 1])

\* C21, as the loop does it: the attempts of one run are made one at a time
\* in the order of the rows, each attempt made by the iteration of its row
\* and ended before the next iteration starts; nothing is done between two
\* attempts (POLL_INTERVAL, line 24, is not used).
C21_AttemptsInRowOrder ==
    /\ \A k \in 1..Len(nt.log) : IsAttempt(nt.log[k]) /\ nt.log[k] < nt.i
    /\ \A j, k \in 1..Len(nt.log) : j < k => nt.log[j] < nt.log[k]

\* Two pending rows, both attempted, the first delivered and the second not;
\* the loop has not yet ended.
C21_Witness ==
    /\ nt.pc = "loop"
    /\ nt.log = <<1, 2>>
    /\ nt.ok = {1}

(***************************************************************************)
(* C22: an entry whose date cannot be parsed (there is none, or it cannot   *)
(* be read) affects that entry alone: the run that had found new articles  *)
(* still holds every one of them after the entry and goes on to its normal *)
(* end, where they are appended.                                           *)
(***************************************************************************)
ParseError(it) == it.date.k # "ok"

Holds(pend, p) == \E k \in 1..Len(pend) : pend[k] = p

C22_ParseErrorLocal ==
    [][\A it \in FrameItems :
          (ParseError(it) /\ hv.pend # <<>> /\ H_Item(it))
          => /\ hv'.pc = "run"
             /\ \A k \in 1..Len(hv.pend) : Holds(hv'.pend, hv.pend[k])]_vars

(***************************************************************************)
(* C23: a row whose delivery failed is taken up again by the next run of   *)
(* the notifier; when the notifier is run again and again, deliveries      *)
(* succeed in the end and the rewrite is done in the end, every row that   *)
(* is pending in a ledger the harvesters produced is marked in the end.    *)
(***************************************************************************)
LineNumbers == 1..(2 * MaxRows + 1)

\* The runs of SpecSound in which every harvester run is carried to its
\* end, the notifier is invoked again and again (strong fairness of its
\* start: harvester runs come in between) and each of its runs is carried
\* to its end, and the delivery of each row succeeds in the end.
SpecRetry ==
    /\ Init
    /\ [][NextSound]_vars
    /\ WF_vars(H_Finish(TRUE))
    /\ WF_vars(H_Exit)
    /\ SF_vars(N_Start(TRUE, TRUE))
    /\ WF_vars(N_Finish(TRUE))
    /\ WF_vars(N_Exit)
    /\ \A i \in LineNumbers : SF_vars(nt.i = i /\ N_Row("ok"))

PendingLine(i) ==
    /\ i <= Len(ledger.lines)
    /\ IsArticle(ledger.lines[i])
    /\ Strip(ledger.lines[i].done) # CHECK_MARK

MarkedLine(i) == i <= Len(ledger.lines) /\ ledger.lines[i].done = CHECK_MARK

C23_PendingEventuallyMarked == \A i \in LineNumbers : PendingLine(i) ~> MarkedLine(i)

(***************************************************************************)
(* C24: the set of existing keys a harvester has when its load ends is the *)
(* set of the non-empty url cells of the ledger's rows that carry the      *)
(* harvester's own source, no more and no less.  Stated for the scripts    *)
(* that keep a set of urls read from the ledger (asic.py reads its set     *)
(* from the checked-URL file, ausblock.py and regtechglobal.py read a      *)
(* latest date).                                                           *)
(***************************************************************************)
UrlKeyed == Harvesters \ {ASIC, AUSBLOCK, REGTECH}

OwnUrls(f, s) ==
    {f.lines[i].url : i \in {j \in 1..Len(f.lines) :
        f.lines[j].source \in SourcesOf(s) /\ f.lines[j].url # ""}}

C24_LoadedOwnUrls ==
    [][\A s \in UrlKeyed, lo \in LocalOffsets, opt \in BOOLEAN :
          (H_Start(s, lo, opt, TRUE, TRUE) /\ hv'.pc = "run")
          => hv'.seen = OwnUrls(ledger', s)]_vars

(***************************************************************************)
(* C25: the paging loop of ausblock.py ends for every finite list of       *)
(* posts: it asks for the pages 1..k in order, k being the first page that *)
(* is empty, holds fewer than PAGE_SIZE posts, or whose request fails, and *)
(* then returns to main (which filters, writes and ends).                  *)
(***************************************************************************)
\* Calls of fetch_all_posts against sites of 0..MaxPosts posts, each request
\* of a call answered or failed in the end (line 62: timeout=30).
SpecPaging ==
    /\ Init
    /\ [][\/ \E n \in 0..MaxPosts : Pg_Start(n)
          \/ \E fail \in BOOLEAN : Pg_Request(fail)]_vars
    /\ WF_vars(\E fail \in BOOLEAN : Pg_Request(fail))

FullPage(p) == PageOf(pg.n, p) = PAGE_SIZE

PagesInOrder ==
    /\ pg.reqs = [p \in 1..Len(pg.reqs) |-> p]
    /\ pg.pc = "paging" => (pg.page = Len(pg.reqs) + 1 /\ \A p \in 1..Len(pg.reqs) : FullPage(p))
    /\ pg.pc = "back" =>
          LET k == Len(pg.reqs)
          IN  /\ k >= 1
              /\ \A p \in 1..(k - 1) : FullPage(p)
              /\ pg.why = "failed" \/ ~FullPage(k)
              /\ pg.why = "empty" <=> (pg.why # "failed" /\ PageOf(pg.n, k) = 0)
              /\ pg.got <= pg.n

SpecRedeliver == Init /\ [][NextNotify]_vars /\ WF_vars(NextNotify)

\* The run at hand delivered data row i.
Delivered(i) == i \in nt.ok

C26_AtMostOnce ==
    \A i \in 1..MaxRows : [](Delivered(i) => [](~Delivered(i) => []~Delivered(i)))

(***************************************************************************)
(* C27: when a run of asic.py ends, every address that passed the date and *)
(* keyword filters and is recorded in the checked-URL file has a row in    *)
(* the ledger, whether the write of the batch failed or not.               *)
(***************************************************************************)
HasRow(f, src, u) == \E i \in 1..Len(f.lines) : f.lines[i].source = src /\ f.lines[i].url = u

C27_CheckedHasRow ==
    [][\A io \in BOOLEAN :
          (hv.src = ASIC /\ H_Finish(io))
          => \A k \in 1..Len(hv.pend) :
                (hv.pend[k].keep /\ hv.pend[k].row.url \in checked')
                => HasRow(ledger', ASIC, hv.pend[k].row.url)]_vars

(***************************************************************************)
(* C28: the scripts that keep a latest date (ausblock.py, regtechglobal.py)*)
(* lose nothing: a run that meets an upstream item which passes the        *)
(* filters and has no row in the ledger queues it for appending, whatever  *)
(* earlier runs appended and whatever its date is next to the latest date  *)
(* of the ledger.  The latest date never decreases, so an item a run       *)
(* passes over is passed over by every later run.  Stated for the runs     *)
(* that take the latest date from a row of the ledger (an empty ledger     *)
(* gives the run a look-back of 30 or 60 days instead).                    *)
(***************************************************************************)
Watermarked == {AUSBLOCK, REGTECH}

OwnRows(f, src) == {i \in 1..Len(f.lines) : f.lines[i].source = src}

\* The year the script compares with its MIN_YEAR.
FilterYear(h, it) ==
    IF h.src = AUSBLOCK THEN AsTimezoneUtc(it.date.st, h.lo).y ELSE it.date.st.c.y

PassesFilters(h, it) ==
    /\ it.url # ""
    /\ it.date.k = "ok"
    /\ it.kw
    /\ FilterYear(h, it) >= MinYear(h.src)

C28_NewItemQueued ==
    [][\A it \in Items :
          (/\ hv.src \in Watermarked
           /\ OwnRows(ledger, hv.src) # {}
           /\ PassesFilters(hv, it)
           /\ ~HasRow(ledger, hv.src, it.url)
           /\ it.url \notin PendUrls(hv.pend)
           /\ H_Item(it))
          => it.url \in PendUrls(hv'.pend)]_vars

(***************************************************************************)
(* C29: a ledger a harvester creates is one the notifier accepts: the      *)
(* first line of the new file, read back as the notifier reads it (utf-8,  *)
(* csv.DictReader), is the list date, source, url, title, done.            *)
(***************************************************************************)
C29_CreatedAccepted ==
    [][(~ledger.exists /\ ledger'.exists /\ hv' # hv) => HeaderMatches(ledger')]_vars

(***************************************************************************)
(* C30: the initialization of the ledger discards no row under             *)
(* interleaving: when a process that found the file missing or empty       *)
(* creates it with the header, every article row another process appended  *)
(* since is still in the file.                                             *)
(***************************************************************************)
\* Harvester runs interleaved with notifier runs that find the file missing
\* or empty; nothing orders the steps of the two processes, and no
\* operation on the file fails.
SpecRace ==
    Init /\ [][\/ \E s \in ConcHarvesters, lo \in LocalOffsets, opt \in BOOLEAN :
                     H_Start(s, lo, opt, TRUE, FALSE)
               \/ \E it \in FrameItems : H_Item(it)
               \/ H_Finish(TRUE)
               \/ H_Exit
               \/ N_Observe
               \/ N_Create(TRUE)
               \/ N_Exit]_vars

KeepsArticles(before, after) ==
    \A i \in 1..Len(before) :
        IsArticle(before[i]) => \E j \in 1..Len(after) : after[j] = before[i]

C30_InitKeepsRows ==
    [][N_Create(TRUE) => KeepsArticles(ledger.lines, ledger'.lines)]_vars

====
